---- MODULE Spec2Model ----
(***************************************************************************)
(* A model of langchain_core/runnables/utils.py:                           *)
(*   - gather_with_concurrency / gated_coro    (specification SpecGather)  *)
(*   - as_event_stream                         (specification SpecEvents)  *)
(*   - add / aadd / AddableDict                (specification SpecAdd)     *)
(* Python values are encoded as tagged tuples so that values of different  *)
(* Python types can be compared: None is <<"null">>, a missing dict key is *)
(* <<"absent">>, a str is <<"str", s>>, a dict with one key is             *)
(* <<"dict", key, value>>, the empty dict is <<"dict">>.                   *)
(***************************************************************************)
EXTENDS Integers, Sequences, FiniteSets, TLC

VARIABLES
    \* as_event_stream
    consumed,             \* the patches read from run_log_patches so far
    run_log,              \* the local run_log: [state |-> ...]
    yielded_start_event,  \* the local flag of the same name
    paths,                \* sub-run paths of the current patch not yet iterated
    pc,                   \* where the generator stands
    events,               \* the StreamEvents yielded so far, in order
    error,                \* the exception that ended the generator, or "none"
    \* gather_with_concurrency
    gated,                \* n is not None
    n,                    \* the limit (0 when n is None)
    will_fail,            \* which coroutines raise when they finish
    status,               \* each coroutine's task: "pending" (not started),
                          \* "waiting" (in acquire), "running" (suspended
                          \* in its body), "done" or "failed"
    task_result,          \* what each finished task holds: its result or
                          \* its exception (<<"unset">> before)
    suspends,             \* which coroutines suspend at an await before
                          \* they finish
    sem_value,            \* the semaphore's _value
    waiters,              \* the semaphore's queue of waiting tasks
    woken,                \* the queued tasks whose future release resolved
    ready,                \* the event loop's queue of scheduled callbacks
    finished,             \* the tasks in the order they finished
    outer,                \* gather's outer future: <<"pending">>, or what
                          \* it was settled with
    nfinished,            \* gather's count of done callbacks it has run
    outcome,              \* what the awaiting caller has received, or
                          \* <<"pending">>
    \* add / aadd
    addables,             \* the sequence being folded
    final,                \* the local accumulator of the same name
    add_pc,               \* 1-based position of the next chunk, or 0 once
                          \* the function has returned or raised
    add_error             \* the exception add raised, or "none"

ev_vars == <<consumed, run_log, yielded_start_event, paths, pc, events, error>>

ga_vars == <<gated, n, will_fail, suspends, status, task_result, sem_value,
            waiters, woken, ready, finished, outer, nfinished, outcome>>

ad_vars == <<addables, final, add_pc, add_error>>

vars == <<consumed, run_log, yielded_start_event, paths, pc, events, error,
          gated, n, will_fail, suspends, status, task_result, sem_value,
          waiters, woken, ready, finished, outer, nfinished, outcome,
          addables, final, add_pc, add_error>>

----------------------------------------------------------------------------
(* Bounds *)

MaxPatches == 5

MaxTasks == 3

MaxLimit == 2

MaxAddables == 3

----------------------------------------------------------------------------
(* Python values *)

ABSENT == <<"absent">>
NULL == <<"null">>
EmptyDict == <<"dict">>
EmptyList == <<"list">>
Str(s) == <<"str", s>>
Dict1(k, v) == <<"dict", k, v>>
Chunk(k) == <<"chunk", k>>

\* bool(v) for the values above: None, the empty str and empty containers
\* are falsy.
Truthy(v) == v # NULL /\ v # Str("") /\ v # EmptyDict /\ v # EmptyList

IsDict(v) == v[1] = "dict"

HasKey(d, k) == IsDict(d) /\ Len(d) = 3 /\ d[2] = k

\* d.get(k, None)
DictGet(d, k) == IF HasKey(d, k) THEN Str(d[3]) ELSE NULL

----------------------------------------------------------------------------
(* The patch stream read by as_event_stream.  A patch (RunLogPatch) is a   *)
(* sequence of ops; an op has a path, kept as the list path.split("/")     *)
(* gives ("/logs/a/end_time" is <<"", "logs", "a", "end_time">> and the    *)
(* root path "" is <<"">>), and a value.                                   *)

SubPaths == {"a", "b"}

\* The category and the id the producer gives each sub-run: "a" is a
\* new-style chain, "b" a legacy llm run.
TypeOf(p) == IF p = "a" THEN "chain" ELSE "llm"

RunIdOf(p) == IF p = "a" THEN "s1" ELSE "s2"

LegacyTypes == {"retriever", "tool", "llm"}

\* The root state the first patch installs, with or without its id; the
\* root that has an id also carries tags and metadata.
RootState(with_id) ==
    [id |-> IF with_id THEN Str("r1") ELSE ABSENT,
     name |-> "root",
     type |-> "chain",
     tags |-> IF with_id THEN <<"list", "t">> ELSE ABSENT,
     metadata |-> IF with_id THEN Dict1("k", "v") ELSE ABSENT,
     streamed_output |-> <<>>,
     final_output |-> NULL,
     logs |-> <<>>]

\* The log entry a producer adds under /logs/<p> when sub-run p starts.
LogEntry(p, inputs) ==
    [id |-> Str(RunIdOf(p)),
     name |-> p,
     type |-> TypeOf(p),
     tags |-> EmptyList,
     metadata |-> EmptyDict,
     inputs |-> inputs,
     final_output |-> NULL,
     streamed_output |-> <<>>,
     end_time |-> NULL]

Op(kind, path, value) == [op |-> kind, path |-> path, value |-> value]

OpRoot(with_id) == Op("replace", <<"">>, RootState(with_id))
OpRootId == Op("add", <<"", "id">>, Str("r1"))
OpRootChunk(k) == Op("add", <<"", "streamed_output", "-">>, Chunk(k))
OpRootFinal == Op("replace", <<"", "final_output">>, Dict1("output", "done"))
OpEntry(p, inputs) == Op("add", <<"", "logs", p>>, LogEntry(p, inputs))
OpChunk(p, k) == Op("add", <<"", "logs", p, "streamed_output", "-">>, Chunk(k))
OpFinal(p, v) == Op("replace", <<"", "logs", p, "final_output">>, v)
OpEnd(p) == Op("replace", <<"", "logs", p, "end_time">>, Str("t1"))
OpMeta(p) == Op("replace", <<"", "logs", p, "metadata">>, Dict1("k", "v"))

InputValues == {NULL, Dict1("input", "i")}
FinalValues == {Dict1("output", "o"), Str("raw")}

\* The patches the producer may send next; k is the number of the next
\* chunk (chunks are numbered in the order they are sent).
PatchUniverse(k) ==
    {<<OpRoot(w)>> : w \in BOOLEAN}
    \cup {<<OpRootId>>, <<OpRootChunk(k)>>, <<OpRootFinal>>,
          <<OpRootChunk(k), OpRootChunk(k + 1)>>}
    \cup {<<OpEntry(p, i)>> : p \in SubPaths, i \in InputValues}
    \cup {<<OpFinal(p, v)>> : p \in SubPaths, v \in FinalValues}
    \cup UNION {{<<OpChunk(p, k)>>,
                 <<OpEnd(p)>>,
                 <<OpMeta(p)>>,
                 <<OpChunk(p, k), OpChunk(p, k + 1)>>,
                 <<OpChunk(p, k), OpEnd(p)>>,
                 <<OpChunk(p, k), OpChunk(p, k + 1), OpEnd(p)>>,
                 <<OpFinal(p, Dict1("output", "o")), OpEnd(p)>>,
                 <<OpEntry(p, Dict1("input", "i")), OpChunk(p, k)>>}
                    : p \in SubPaths}
    \cup {<<OpEntry("a", Dict1("input", "i")), OpEntry("b", Dict1("input", "i"))>>,
          <<OpMeta("a"), OpMeta("b")>>,
          <<OpRootId, OpEntry("a", Dict1("input", "i")), OpRootChunk(k)>>}

----------------------------------------------------------------------------
(* RunLog + RunLogPatch: every op of the patch is applied to the state, in *)
(* order, as an add or replace at its path.                                *)

NoneState == [none |-> TRUE]

\* Whether op can be applied to state: the root must exist for anything
\* but the root replace (which the producer sends first and once), a
\* sub-run is added once and must exist before its fields are patched,
\* and the root id is added only while it is missing.
Applicable(state, op) ==
    IF op.path = <<"">> THEN state = NoneState
    ELSE /\ state # NoneState
         /\ IF op.path[2] = "logs"
            THEN IF Len(op.path) = 3
                 THEN op.path[3] \notin DOMAIN state.logs
                 ELSE op.path[3] \in DOMAIN state.logs
            ELSE op.path[2] = "id" => state.id = ABSENT

ApplyOp(state, op) ==
    LET path == op.path IN
    IF path = <<"">> THEN op.value
    ELSE IF path[2] = "logs"
    THEN LET p == path[3] IN
         IF Len(path) = 3
         THEN [state EXCEPT !.logs = (p :> op.value) @@ state.logs]
         ELSE IF path[Len(path)] = "-"
         THEN [state EXCEPT !.logs[p][path[4]] = Append(@, op.value)]
         ELSE [state EXCEPT !.logs[p][path[4]] = op.value]
    ELSE IF path[Len(path)] = "-"
    THEN [state EXCEPT ![path[2]] = Append(@, op.value)]
    ELSE [state EXCEPT ![path[2]] = op.value]

RECURSIVE ApplyPatch(_, _)
ApplyPatch(state, ops) ==
    IF ops = <<>> THEN state
    ELSE ApplyPatch(ApplyOp(state, Head(ops)), Tail(ops))

RECURSIVE WellFormed(_, _)
WellFormed(state, ops) ==
    IF ops = <<>> THEN TRUE
    ELSE /\ Applicable(state, Head(ops))
         /\ WellFormed(ApplyOp(state, Head(ops)), Tail(ops))

\* run_log + log
RunLogAdd(rl, patch) == [state |-> ApplyPatch(rl.state, patch)]

\* The chunks sent so far, counted over the patches consumed.
RECURSIVE ChunksIn(_)
ChunksIn(ops) ==
    IF ops = <<>> THEN 0
    ELSE (IF Head(ops).path[Len(Head(ops).path)] = "-" THEN 1 ELSE 0)
         + ChunksIn(Tail(ops))

RECURSIVE ChunksSent(_)
ChunksSent(patches) ==
    IF patches = <<>> THEN 0
    ELSE ChunksIn(Head(patches)) + ChunksSent(Tail(patches))

----------------------------------------------------------------------------
(* as_event_stream *)

NoData == [input |-> ABSENT, output |-> ABSENT, chunk |-> ABSENT]

\* StreamEvent(...); the event name f"on_{type}_{kind}" is kept as the
\* pair <<type, kind>>.
StreamEvent(type, kind, name, run_id, tags, metadata, data) ==
    [event |-> <<type, kind>>, name |-> name, run_id |-> run_id,
     tags |-> tags, metadata |-> metadata, data |-> data]

\* d.get(key, default) on the root state.
GetOr(d, key, default) == IF d[key] = ABSENT THEN default ELSE d[key]

\* The set comprehension of lines 498-502.
TouchedPaths(patch) ==
    {patch[i].path[3] : i \in {j \in DOMAIN patch :
                                  /\ Len(patch[j].path) >= 3
                                  /\ patch[j].path[1] = ""
                                  /\ patch[j].path[2] = "logs"}}

\* A classification that looks at streamed_output before end_time.
EventType_StreamFirst(log) ==
    IF Len(log.streamed_output) > 0 THEN "stream"
    ELSE IF log.end_time = NULL THEN "start"
    ELSE "end"

\* Lines 508-516.
EventType(log) ==
    IF log.end_time = NULL
    THEN IF Len(log.streamed_output) > 0 THEN "stream" ELSE "start"
    ELSE "end"

\* v["input"] for a value v that is present: the value under the key, or
\* the exception raised (None, a str and a list cannot be indexed by a
\* str; a dict without the key raises KeyError).
GetInput(v) ==
    IF ~IsDict(v) THEN [err |-> "TypeError", val |-> NULL]
    ELSE IF ~HasKey(v, "input") THEN [err |-> "KeyError", val |-> NULL]
    ELSE [err |-> "none", val |-> DictGet(v, "input")]

\* Lines 518-532: the data of a start event, or the error raised.
StartData(log) ==
    IF log.inputs = ABSENT THEN [err |-> "KeyError", data |-> NoData, log |-> log]
    ELSE IF log.type \in LegacyTypes
    THEN [err |-> "none",
          data |-> IF Truthy(log.inputs)
                   THEN [NoData EXCEPT !.input = log.inputs] ELSE NoData,
          log |-> log]
    ELSE IF GetInput(log.inputs).err # "none"
    THEN [err |-> GetInput(log.inputs).err, data |-> NoData, log |-> log]
    ELSE [err |-> "none",
          data |-> [NoData EXCEPT !.input = GetInput(log.inputs).val],
          log |-> log]

\* Lines 537-539 and 547-556: the output of an end event and the log with
\* the final_output it deletes; final_output is present.
EndOutput(log) ==
    IF log.type \in LegacyTypes
    THEN [output |-> log.final_output,
          log |-> [log EXCEPT !.final_output = ABSENT]]
    ELSE IF log.final_output = NULL
    THEN [output |-> NULL, log |-> log]
    ELSE IF IsDict(log.final_output)
    THEN [output |-> DictGet(log.final_output, "output"),
          log |-> [log EXCEPT !.final_output = ABSENT]]
    ELSE [output |-> ABSENT, log |-> log]

\* Lines 534-562: the data of an end event and the log with the fields it
\* deletes, or the error raised.  The statements run in order, so an error
\* raised on the inputs leaves the log with final_output already deleted.
EndData(log) ==
    IF log.final_output = ABSENT
    THEN [err |-> "KeyError", data |-> NoData, log |-> log]
    ELSE LET out == EndOutput(log) IN
         IF log.inputs = ABSENT
         THEN [err |-> "KeyError", data |-> NoData, log |-> out.log]
         ELSE IF ~Truthy(log.inputs)
         THEN [err |-> "none",
               data |-> [NoData EXCEPT !.output = out.output],
               log |-> out.log]
         ELSE IF log.type \in LegacyTypes
         THEN [err |-> "none",
               data |-> [NoData EXCEPT !.output = out.output,
                                       !.input = log.inputs],
               log |-> [out.log EXCEPT !.inputs = ABSENT]]
         ELSE IF GetInput(log.inputs).err # "none"
         THEN [err |-> GetInput(log.inputs).err, data |-> NoData, log |-> out.log]
         ELSE [err |-> "none",
               data |-> [NoData EXCEPT !.output = out.output,
                                       !.input = GetInput(log.inputs).val],
               log |-> [out.log EXCEPT !.inputs = ABSENT]]

\* Lines 564-575 (and 587-597 for the root): the chunk, and the run with
\* its streamed_output drained, or the error raised.
StreamData(log) ==
    IF Len(log.streamed_output) # 1
    THEN [err |-> "AssertionError", data |-> NoData, log |-> log]
    ELSE [err |-> "none",
          data |-> [NoData EXCEPT !.chunk = log.streamed_output[1]],
          log |-> [log EXCEPT !.streamed_output = <<>>]]

\* Lines 506-575 for one path.
Inspect(log) ==
    IF EventType(log) = "start" THEN StartData(log)
    ELSE IF EventType(log) = "end" THEN EndData(log)
    ELSE StreamData(log)

\* A start check that forgets the yielded_start_event flag.
RootStartDue_EveryPatch(yielded, state) == state.id # ABSENT

\* A start check that waits until the root has a sub-run.
RootStartDue_WithSubRun(yielded, state) ==
    ~yielded /\ state.id # ABSENT /\ DOMAIN state.logs # {}

\* Line 475 and line 487: the root start event is due.
RootStartDue(yielded, state) == ~yielded /\ state.id # ABSENT

\* Lines 488-495.
RootStartEvent(state) ==
    StreamEvent(state.type, "start", state.name, state.id,
                EmptyList, EmptyDict, NoData)

\* Lines 577-584.
SubRunEvent(log, kind, data) ==
    StreamEvent(log.type, kind, log.name, log.id, log.tags, log.metadata, data)

\* Lines 599-606.
RootStreamEvent(state, data) ==
    StreamEvent(state.type, "stream", state.name, state.id,
                GetOr(state, "tags", EmptyList),
                GetOr(state, "metadata", EmptyDict), data)

\* A final state that keeps the root's tags and metadata.
FinalState_Keep(state) == state

\* Lines 608-625: the copy of the root state with tags and metadata
\* emptied, and the end event built from it.
FinalState(state) == [state EXCEPT !.tags = EmptyList, !.metadata = EmptyDict]

RootEndEvent(state) ==
    StreamEvent(FinalState(state).type, "end", FinalState(state).name,
                FinalState(state).id, FinalState(state).tags,
                FinalState(state).metadata,
                [NoData EXCEPT !.output = FinalState(state).final_output])

\* An exception leaves the generator: it stops where it stands.
Fail(exc) ==
    /\ error' = exc
    /\ UNCHANGED pc

\* Lines 472-495 and 498-502: the next patch is read and merged.  If the
\* root start event is due it is yielded, and the generator rests at that
\* yield with yielded_start_event not yet set; otherwise the touched
\* sub-run paths are collected at once.
NextPatch(patch) ==
    /\ pc = "next"
    /\ error = "none"
    /\ Len(consumed) < MaxPatches
    /\ WellFormed(run_log.state, patch)
    /\ consumed' = Append(consumed, patch)
    /\ run_log' = RunLogAdd(run_log, patch)
    /\ IF RootStartDue(yielded_start_event, run_log'.state)
       THEN /\ events' = Append(events, RootStartEvent(run_log'.state))
            /\ pc' = "start"
            /\ UNCHANGED paths
       ELSE /\ paths' = TouchedPaths(patch)
            /\ pc' = IF paths' = {} THEN "root" ELSE "paths"
            /\ UNCHANGED events
    /\ UNCHANGED <<yielded_start_event, error>>

\* Lines 496-502: the generator is resumed after the root start event; the
\* flag is set and the touched sub-run paths of the patch are collected.
AfterStart ==
    /\ pc = "start"
    /\ error = "none"
    /\ yielded_start_event' = TRUE
    /\ paths' = TouchedPaths(consumed[Len(consumed)])
    /\ pc' = IF paths' = {} THEN "root" ELSE "paths"
    /\ UNCHANGED <<consumed, run_log, events, error>>

\* Lines 505-584: one iteration of the loop over the touched paths (a set,
\* iterated in no fixed order).  When the inspection raises, the fields it
\* had already deleted stay deleted.
SubRun(path) ==
    /\ pc = "paths"
    /\ error = "none"
    /\ path \in paths
    /\ LET log == run_log.state.logs[path]
           r == Inspect(log)
       IN IF r.err # "none"
          THEN /\ Fail(r.err)
               /\ run_log' = [run_log EXCEPT !.state.logs[path] = r.log]
               /\ UNCHANGED <<events, paths>>
          ELSE /\ run_log' = [run_log EXCEPT !.state.logs[path] = r.log]
               /\ events' = Append(events, SubRunEvent(r.log, EventType(log), r.data))
               /\ paths' = paths \ {path}
               /\ pc' = IF paths' = {} THEN "root" ELSE "paths"
               /\ UNCHANGED error
    /\ UNCHANGED <<consumed, yielded_start_event>>

\* A root step that yields the chunk event before the chunk count is
\* checked.
RootStream_YieldThenCheck ==
    /\ pc = "root"
    /\ error = "none"
    /\ LET state == run_log.state
           r == StreamData(state)
       IN IF Len(state.streamed_output) = 0
          THEN /\ pc' = "next"
               /\ UNCHANGED <<run_log, events, error>>
          ELSE IF state.id = ABSENT
          THEN /\ Fail("KeyError")
               /\ run_log' = [run_log EXCEPT !.state.streamed_output = <<>>]
               /\ UNCHANGED events
          ELSE IF r.err # "none"
          THEN /\ Fail(r.err)
               /\ events' = Append(events,
                     RootStreamEvent(state,
                        [NoData EXCEPT !.chunk = state.streamed_output[1]]))
               /\ UNCHANGED run_log
          ELSE /\ run_log' = [run_log EXCEPT !.state = r.log]
               /\ events' = Append(events, RootStreamEvent(r.log, r.data))
               /\ pc' = "next"
               /\ UNCHANGED error
    /\ UNCHANGED <<consumed, yielded_start_event, paths>>

\* Lines 586-606: after the sub-runs, the root's own streamed output.  The
\* chunk is drained (line 597) before the event is built, so a root without
\* id loses the chunk when state["id"] raises.
RootStream ==
    /\ pc = "root"
    /\ error = "none"
    /\ LET state == run_log.state
           r == StreamData(state)
       IN IF Len(state.streamed_output) = 0
          THEN /\ pc' = "next"
               /\ UNCHANGED <<run_log, events, error>>
          ELSE IF r.err # "none"
          THEN /\ Fail(r.err)
               /\ UNCHANGED <<run_log, events>>
          ELSE IF state.id = ABSENT
          THEN /\ Fail("KeyError")
               /\ run_log' = [run_log EXCEPT !.state = r.log]
               /\ UNCHANGED events
          ELSE /\ run_log' = [run_log EXCEPT !.state = r.log]
               /\ events' = Append(events, RootStreamEvent(r.log, r.data))
               /\ pc' = "next"
               /\ UNCHANGED error
    /\ UNCHANGED <<consumed, yielded_start_event, paths>>

\* An ending that emits the root end event only if a final output was set.
Finish_OnlyWithOutput ==
    /\ pc = "next"
    /\ error = "none"
    /\ IF run_log.state = NoneState
       THEN /\ Fail("AttributeError")
            /\ UNCHANGED events
       ELSE IF run_log.state.final_output = ABSENT \/ run_log.state.id = ABSENT
       THEN /\ Fail("KeyError")
            /\ UNCHANGED events
       ELSE /\ events' = IF run_log.state.final_output = NULL THEN events
                         ELSE Append(events, RootEndEvent(run_log.state))
            /\ pc' = "done"
            /\ UNCHANGED error
    /\ UNCHANGED <<consumed, run_log, yielded_start_event, paths>>

\* Lines 608-625: the patch source has ended.
Finish ==
    /\ pc = "next"
    /\ error = "none"
    /\ IF run_log.state = NoneState
       THEN /\ Fail("AttributeError")
            /\ UNCHANGED events
       ELSE IF run_log.state.final_output = ABSENT \/ run_log.state.id = ABSENT
       THEN /\ Fail("KeyError")
            /\ UNCHANGED events
       ELSE /\ events' = Append(events, RootEndEvent(run_log.state))
            /\ pc' = "done"
            /\ UNCHANGED error
    /\ UNCHANGED <<consumed, run_log, yielded_start_event, paths>>

IdleEvents ==
    /\ consumed = <<>>
    /\ run_log = [state |-> NoneState]
    /\ yielded_start_event = FALSE
    /\ paths = {}
    /\ pc = "idle"
    /\ events = <<>>
    /\ error = "none"

IdleGather ==
    /\ gated = FALSE
    /\ n = 0
    /\ will_fail = <<>>
    /\ suspends = <<>>
    /\ status = <<>>
    /\ task_result = <<>>
    /\ sem_value = 0
    /\ waiters = <<>>
    /\ woken = {}
    /\ ready = <<>>
    /\ finished = <<>>
    /\ outer = <<"idle">>
    /\ nfinished = 0
    /\ outcome = <<"idle">>

IdleAdd ==
    /\ addables = <<>>
    /\ final = NULL
    /\ add_pc = 0
    /\ add_error = "none"

InitEvents ==
    /\ consumed = <<>>
    /\ run_log = [state |-> NoneState]
    /\ yielded_start_event = FALSE
    /\ paths = {}
    /\ pc = "next"
    /\ events = <<>>
    /\ error = "none"
    /\ IdleGather
    /\ IdleAdd

NextEvents ==
    \/ /\ \E patch \in PatchUniverse(ChunksSent(consumed) + 1) : NextPatch(patch)
       /\ UNCHANGED <<ga_vars, ad_vars>>
    \/ /\ AfterStart
       /\ UNCHANGED <<ga_vars, ad_vars>>
    \/ /\ \E path \in SubPaths : SubRun(path)
       /\ UNCHANGED <<ga_vars, ad_vars>>
    \/ /\ RootStream
       /\ UNCHANGED <<ga_vars, ad_vars>>
    \/ /\ Finish
       /\ UNCHANGED <<ga_vars, ad_vars>>

SpecEvents == InitEvents /\ [][NextEvents]_vars

----------------------------------------------------------------------------
(* gather_with_concurrency and gated_coro.  asyncio.gather wraps each      *)
(* coroutine in a task; the event loop runs one callback of its ready      *)
(* queue at a time: a step of a task (up to its next await), gather's      *)
(* _done_callback for a finished task, or the resumption of the caller.    *)

Tasks == 1 .. MaxTasks

\* What the i-th coroutine returns, and what it raises if it fails.
ResultOf(i) == <<"result", i>>
ExcOf(i) == <<"error", i>>

\* asyncio.Semaphore(n): _value starts at n.
Semaphore(limit) == limit

\* The semaphore and the ready queue as one task step sees them.
LoopState == [value |-> sem_value, waiters |-> waiters, woken |-> woken,
              ready |-> Tail(ready)]

\* Semaphore.locked(): no permit is free, or some task is queued (a woken
\* waiter stays queued until it resumes).
Locked(value, ws) == value = 0 \/ ws # <<>>

\* The first queued waiter that has not been woken, or 0.
NextWaiter(ws, wk) ==
    IF \E k \in DOMAIN ws : ws[k] \notin wk
    THEN ws[CHOOSE k \in DOMAIN ws :
                /\ ws[k] \notin wk
                /\ \A m \in DOMAIN ws : ws[m] \notin wk => k <= m]
    ELSE 0

\* Semaphore._wake_up_next(): the permit goes to the first waiter not yet
\* woken, whose resumption is scheduled.
WakeUpNext(s) ==
    LET w == NextWaiter(s.waiters, s.woken) IN
    IF w = 0 THEN s
    ELSE [s EXCEPT !.value = @ - 1,
                   !.woken = @ \cup {w},
                   !.ready = Append(@, <<"step", w>>)]

\* Semaphore.release(), called when the async with block is left.
Release(s) == WakeUpNext([s EXCEPT !.value = @ + 1])

GatherResults_CompletionOrder(res, order) ==
    <<"returned", [k \in Tasks |-> res[order[k]]]>>

\* The list gather builds from its children, in the order they were given.
GatherResults(res, order) == <<"returned", [i \in Tasks |-> res[i]]>>

GatherCallback_LastError(out, i, st, res, order, count) ==
    IF st[i] = "failed" THEN <<"raised", res[i]>>
    ELSE IF out # <<"pending">> THEN out
    ELSE IF count = MaxTasks THEN GatherResults(res, order)
    ELSE out

\* What gather's _done_callback for task i makes of the outer future: a
\* settled future is left alone, a failure settles it with the task's
\* exception, the last callback settles it with the list of results.
GatherCallback(out, i, st, res, order, count) ==
    IF out # <<"pending">> THEN out
    ELSE IF st[i] = "failed" THEN <<"raised", res[i]>>
    ELSE IF count = MaxTasks THEN GatherResults(res, order)
    ELSE out

FinishCoro_ReleaseTwiceOnError(i, s) ==
    LET r == IF ~gated THEN s
             ELSE IF will_fail[i] THEN Release(Release(s)) ELSE Release(s) IN
    /\ status' = [status EXCEPT ![i] = IF will_fail[i] THEN "failed" ELSE "done"]
    /\ task_result' = [task_result EXCEPT
                          ![i] = IF will_fail[i] THEN ExcOf(i) ELSE ResultOf(i)]
    /\ finished' = Append(finished, i)
    /\ sem_value' = r.value
    /\ waiters' = r.waiters
    /\ woken' = r.woken
    /\ ready' = Append(r.ready, <<"done_cb", i>>)

FinishCoro_LeakOnError(i, s) ==
    LET r == IF gated /\ ~will_fail[i] THEN Release(s) ELSE s IN
    /\ status' = [status EXCEPT ![i] = IF will_fail[i] THEN "failed" ELSE "done"]
    /\ task_result' = [task_result EXCEPT
                          ![i] = IF will_fail[i] THEN ExcOf(i) ELSE ResultOf(i)]
    /\ finished' = Append(finished, i)
    /\ sem_value' = r.value
    /\ waiters' = r.waiters
    /\ woken' = r.woken
    /\ ready' = Append(r.ready, <<"done_cb", i>>)

\* The coroutine of task i returns or raises: the async with block is left
\* (the permit is released either way), the task holds the result or the
\* exception, and gather's callback for the task is scheduled.
FinishCoro(i, s) ==
    LET r == IF gated THEN Release(s) ELSE s IN
    /\ status' = [status EXCEPT ![i] = IF will_fail[i] THEN "failed" ELSE "done"]
    /\ task_result' = [task_result EXCEPT
                          ![i] = IF will_fail[i] THEN ExcOf(i) ELSE ResultOf(i)]
    /\ finished' = Append(finished, i)
    /\ sem_value' = r.value
    /\ waiters' = r.waiters
    /\ woken' = r.woken
    /\ ready' = Append(r.ready, <<"done_cb", i>>)

\* `return await coro`: the coroutine runs to its await and suspends, or
\* runs to its end within the same step of the task.
RunCoro(i, s) ==
    IF suspends[i]
    THEN /\ status' = [status EXCEPT ![i] = "running"]
         /\ sem_value' = s.value
         /\ waiters' = s.waiters
         /\ woken' = s.woken
         /\ ready' = s.ready
         /\ UNCHANGED <<task_result, finished>>
    ELSE FinishCoro(i, s)

Start_Ungated(i) ==
    /\ ready # <<>>
    /\ Head(ready) = <<"step", i>>
    /\ status[i] = "pending"
    /\ RunCoro(i, LoopState)
    /\ UNCHANGED <<gated, n, will_fail, suspends, outer, nfinished, outcome>>

\* The first step of task i.  Without a limit the coroutine runs at once;
\* with one, acquire() takes a permit when the semaphore is not locked and
\* queues the task otherwise.
Start(i) ==
    /\ ready # <<>>
    /\ Head(ready) = <<"step", i>>
    /\ status[i] = "pending"
    /\ IF ~gated
       THEN RunCoro(i, LoopState)
       ELSE IF ~Locked(sem_value, waiters)
       THEN RunCoro(i, [LoopState EXCEPT !.value = @ - 1])
       ELSE /\ status' = [status EXCEPT ![i] = "waiting"]
            /\ waiters' = Append(waiters, i)
            /\ ready' = Tail(ready)
            /\ UNCHANGED <<sem_value, woken, task_result, finished>>
    /\ UNCHANGED <<gated, n, will_fail, suspends, outer, nfinished, outcome>>

Admit_UnlessFailed(i) ==
    /\ ready # <<>>
    /\ Head(ready) = <<"step", i>>
    /\ status[i] = "waiting"
    /\ i \in woken
    /\ outer[1] # "raised"
    /\ LET s == [LoopState EXCEPT
                    !.waiters = SelectSeq(@, LAMBDA w : w # i),
                    !.woken = @ \ {i}] IN
       RunCoro(i, IF s.value > 0 THEN WakeUpNext(s) ELSE s)
    /\ UNCHANGED <<gated, n, will_fail, suspends, outer, nfinished, outcome>>

\* A woken waiter resumes in acquire(): it leaves the queue, passes a free
\* permit on if there is one, and enters its body with the permit that
\* release() handed to it.
Admit(i) ==
    /\ ready # <<>>
    /\ Head(ready) = <<"step", i>>
    /\ status[i] = "waiting"
    /\ i \in woken
    /\ LET s == [LoopState EXCEPT
                    !.waiters = SelectSeq(@, LAMBDA w : w # i),
                    !.woken = @ \ {i}] IN
       RunCoro(i, IF s.value > 0 THEN WakeUpNext(s) ELSE s)
    /\ UNCHANGED <<gated, n, will_fail, suspends, outer, nfinished, outcome>>

\* What the suspended coroutine of task i awaits completes: the task's
\* next step is scheduled.
Resume(i) ==
    /\ status[i] = "running"
    /\ \A k \in DOMAIN ready : ready[k] # <<"step", i>>
    /\ ready' = Append(ready, <<"step", i>>)
    /\ UNCHANGED <<gated, n, will_fail, suspends, status, task_result,
                   sem_value, waiters, woken, finished, outer, nfinished,
                   outcome>>

\* The step of task i after its coroutine was resumed: the coroutine ends.
Complete(i) ==
    /\ ready # <<>>
    /\ Head(ready) = <<"step", i>>
    /\ status[i] = "running"
    /\ FinishCoro(i, LoopState)
    /\ UNCHANGED <<gated, n, will_fail, suspends, outer, nfinished, outcome>>

\* gather's _done_callback for the finished task i; settling the outer
\* future schedules the resumption of the caller that awaits it.
DoneCallback(i) ==
    /\ ready # <<>>
    /\ Head(ready) = <<"done_cb", i>>
    /\ nfinished' = nfinished + 1
    /\ outer' = GatherCallback(outer, i, status, task_result, finished,
                               nfinished')
    /\ ready' = IF outer' # outer THEN Append(Tail(ready), <<"caller">>)
                ELSE Tail(ready)
    /\ UNCHANGED <<gated, n, will_fail, suspends, status, task_result,
                   sem_value, waiters, woken, finished, outcome>>

\* The caller's await of gather resumes with the outer future's outcome.
CallerResume ==
    /\ ready # <<>>
    /\ Head(ready) = <<"caller">>
    /\ outcome' = outer
    /\ ready' = Tail(ready)
    /\ UNCHANGED <<gated, n, will_fail, suspends, status, task_result,
                   sem_value, waiters, woken, finished, outer, nfinished>>

\* The state when the caller has suspended at its await: every task is
\* created and its first step is scheduled, in the order of the inputs.
InitGather ==
    /\ gated \in BOOLEAN
    /\ n \in 0 .. MaxLimit
    /\ ~gated => n = 0
    /\ will_fail \in [Tasks -> BOOLEAN]
    /\ suspends \in [Tasks -> BOOLEAN]
    /\ status = [i \in Tasks |-> "pending"]
    /\ task_result = [i \in Tasks |-> <<"unset">>]
    /\ sem_value = IF gated THEN Semaphore(n) ELSE 0
    /\ waiters = <<>>
    /\ woken = {}
    /\ ready = [i \in Tasks |-> <<"step", i>>]
    /\ finished = <<>>
    /\ outer = <<"pending">>
    /\ nfinished = 0
    /\ outcome = <<"pending">>
    /\ IdleEvents
    /\ IdleAdd

NextGather ==
    \/ /\ \E i \in Tasks : Start(i)
       /\ UNCHANGED <<ev_vars, ad_vars>>
    \/ /\ \E i \in Tasks : Admit(i)
       /\ UNCHANGED <<ev_vars, ad_vars>>
    \/ /\ \E i \in Tasks : Resume(i)
       /\ UNCHANGED <<ev_vars, ad_vars>>
    \/ /\ \E i \in Tasks : Complete(i)
       /\ UNCHANGED <<ev_vars, ad_vars>>
    \/ /\ \E i \in Tasks : DoneCallback(i)
       /\ UNCHANGED <<ev_vars, ad_vars>>
    \/ /\ CallerResume
       /\ UNCHANGED <<ev_vars, ad_vars>>

SpecGather == InitGather /\ [][NextGather]_vars

\* The event loop runs every callback it has scheduled, and what a running
\* coroutine awaits completes in the end.
FairGather ==
    /\ \A i \in Tasks :
          /\ WF_ga_vars(Start(i))
          /\ WF_ga_vars(Admit(i))
          /\ WF_ga_vars(Resume(i))
          /\ WF_ga_vars(Complete(i))
          /\ WF_ga_vars(DoneCallback(i))
    /\ WF_ga_vars(CallerResume)

SpecGatherFair == SpecGather /\ FairGather

----------------------------------------------------------------------------
(* add, aadd and AddableDict.  An int is <<"int", k>>, a str is            *)
(* <<"str", cs>> with cs its characters, an AddableDict is                 *)
(* <<"AddableDict", f>> with f the function from its keys to its values.   *)

PyInt(k) == <<"int", k>>
PyStr(cs) == <<"str", cs>>
AddableDict(f) == <<"AddableDict", f>>

TypeOfValue(v) == v[1]

Ok(v) == [err |-> "none", val |-> v]
Raise(exc) == [err |-> exc, val |-> NULL]

DictKeys == {"x", "y"}

RECURSIVE PyAdd(_, _)

\* Lines 284-294 (__add__: base is self, other the right operand) and
\* lines 297-307 (__radd__: base is the left operand, other is self): a
\* copy of base into which every key of other is merged.  A TypeError of
\* the inner + makes the key take other's value; any other exception
\* leaves the method.
DictMerge(base, other) ==
    LET shared == {k \in DOMAIN other :
                      k \in DOMAIN base /\ base[k] # NULL /\ other[k] # NULL}
        escaping == {k \in shared :
                      PyAdd(base[k], other[k]).err \notin {"none", "TypeError"}}
    IN IF escaping # {}
       THEN Raise(PyAdd(base[CHOOSE k \in escaping : TRUE],
                        other[CHOOSE k \in escaping : TRUE]).err)
       ELSE Ok(AddableDict(
                [k \in DOMAIN base \cup DOMAIN other |->
                    IF k \notin DOMAIN other THEN base[k]
                    ELSE IF k \notin DOMAIN base THEN other[k]
                    ELSE IF base[k] = NULL THEN other[k]
                    ELSE IF other[k] = NULL THEN base[k]
                    ELSE IF PyAdd(base[k], other[k]).err = "TypeError"
                    THEN other[k]
                    ELSE PyAdd(base[k], other[k]).val]))

\* Python's a + b for the values above (line 290, 303, 331, 342).
PyAdd(a, b) ==
    IF TypeOfValue(a) = "int" /\ TypeOfValue(b) = "int"
    THEN Ok(PyInt(a[2] + b[2]))
    ELSE IF TypeOfValue(a) = "str" /\ TypeOfValue(b) = "str"
    THEN Ok(PyStr(a[2] \o b[2]))
    ELSE IF TypeOfValue(a) = "AddableDict"
    THEN \* a.__add__(b): iterates b and indexes it by its keys
         IF TypeOfValue(b) = "AddableDict" THEN DictMerge(a[2], b[2])
         ELSE IF b = PyStr(<<>>) THEN Ok(a)
         ELSE Raise("TypeError")
    ELSE IF TypeOfValue(b) = "AddableDict"
    THEN \* b.__radd__(a): AddableDict(a) builds a dict from a
         IF a = PyStr(<<>>) THEN Ok(b)
         ELSE IF TypeOfValue(a) = "str" THEN Raise("ValueError")
         ELSE Raise("TypeError")
    ELSE Raise("TypeError")

\* The values a fold is fed: None, numbers, text, and AddableDicts over
\* DictKeys whose values are None, a number, text or a nested AddableDict.
Scalars == {PyInt(1), PyInt(2), PyStr(<<"a">>), PyStr(<<"b">>)}

Leaves == {NULL, PyInt(1), PyStr(<<"a">>), AddableDict([x |-> PyInt(1)])}

Dicts == UNION {{AddableDict(f) : f \in [ks -> Leaves]} : ks \in SUBSET DictKeys}

Addables == {NULL} \cup Scalars \cup Dicts

\* A loop body that adds the accumulator to the chunk, operands swapped.
AddStep_Reversed ==
    /\ add_pc # 0
    /\ add_pc <= Len(addables)
    /\ LET chunk == addables[add_pc] IN
       IF final = NULL
       THEN /\ final' = chunk
            /\ add_pc' = add_pc + 1
            /\ UNCHANGED add_error
       ELSE IF PyAdd(chunk, final).err = "none"
       THEN /\ final' = PyAdd(chunk, final).val
            /\ add_pc' = add_pc + 1
            /\ UNCHANGED add_error
       ELSE /\ add_error' = PyAdd(chunk, final).err
            /\ add_pc' = 0
            /\ UNCHANGED final
    /\ UNCHANGED addables

\* Lines 327-331 (add) and 338-342 (aadd): one iteration of the loop.
AddStep ==
    /\ add_pc # 0
    /\ add_pc <= Len(addables)
    /\ LET chunk == addables[add_pc] IN
       IF final = NULL
       THEN /\ final' = chunk
            /\ add_pc' = add_pc + 1
            /\ UNCHANGED add_error
       ELSE IF PyAdd(final, chunk).err = "none"
       THEN /\ final' = PyAdd(final, chunk).val
            /\ add_pc' = add_pc + 1
            /\ UNCHANGED add_error
       ELSE /\ add_error' = PyAdd(final, chunk).err
            /\ add_pc' = 0
            /\ UNCHANGED final
    /\ UNCHANGED addables

\* Lines 332 and 343: return final.
AddReturn ==
    /\ add_pc # 0
    /\ add_pc > Len(addables)
    /\ add_pc' = 0
    /\ UNCHANGED <<addables, final, add_error>>

InitAdd ==
    /\ addables \in UNION {[1 .. len -> Addables] : len \in 0 .. MaxAddables}
    /\ final = NULL
    /\ add_pc = 1
    /\ add_error = "none"
    /\ IdleEvents
    /\ IdleGather

NextAdd ==
    \/ /\ AddStep
       /\ UNCHANGED <<ev_vars, ga_vars>>
    \/ /\ AddReturn
       /\ UNCHANGED <<ev_vars, ga_vars>>

SpecAdd == InitAdd /\ [][NextAdd]_vars

----------------------------------------------------------------------------
(* Properties of gather_with_concurrency *)

\* The tasks that hold a permit and have not finished: those suspended in
\* their body and those a release has handed a permit to.
Admitted == {i \in Tasks : status[i] = "running"} \cup woken

\* The task's coroutine starts in this step (it may also end in it).
BodyStarts(i) ==
    /\ status[i] \in {"pending", "waiting"}
    /\ status'[i] \in {"running", "done", "failed"}

\* The task ends in this step.
Finishes(i) ==
    /\ status[i] \notin {"done", "failed"}
    /\ status'[i] \in {"done", "failed"}

\* C1: with a limit n, at most n tasks are admitted and unfinished in every
\* reachable state, and a task starts its body only with a permit: one it
\* takes from the free permits, or one a finishing task handed to it.
C1_ConcurrencyCeiling ==
    /\ [](gated => Cardinality(Admitted) <= n)
    /\ [][\A i \in Tasks :
            /\ (gated /\ BodyStarts(i) /\ status[i] = "pending")
                  => (sem_value > 0 /\ waiters = <<>>)
            /\ (gated /\ BodyStarts(i) /\ status[i] = "waiting")
                  => i \in woken
            /\ (gated /\ status'[i] = "running" /\ status[i] = "pending")
                  => sem_value' = sem_value - 1
            /\ (i \in woken' /\ i \notin woken)
                  => (sem_value > 0 \/ \E j \in Tasks : Finishes(j))]_vars

C1_Witness ==
    /\ gated
    /\ n = 2
    /\ Cardinality(Admitted) = 2
    /\ \E i \in Tasks : status[i] = "waiting" /\ i \notin woken

\* C2: when every task succeeds, the caller receives the list whose i-th
\* element is the result of the i-th coroutine, whatever the limit and
\* whatever the order of admission and completion: nothing else is ever
\* received, nothing is received before every task is done, and the list
\* has been received once every task is done and the loop has run every
\* callback.
C2_ResultsInInputOrder ==
    /\ (\A i \in Tasks : ~will_fail[i])
          => outcome \in {<<"pending">>,
                          <<"returned", [i \in Tasks |-> ResultOf(i)]>>}
    /\ ((\A i \in Tasks : ~will_fail[i]) /\ ready = <<>>
           /\ (\A i \in Tasks : status[i] = "done"))
          => outcome = <<"returned", [i \in Tasks |-> ResultOf(i)]>>
    /\ outcome[1] = "returned"
          => /\ outcome[2] = [i \in Tasks |-> ResultOf(i)]
             /\ \A i \in Tasks : status[i] = "done"

C2_Witness ==
    /\ outcome[1] = "returned"
    /\ gated
    /\ n = 2
    /\ finished[1] # 1

\* The positions in the finishing order at which a task failed.
FailedAt == {k \in DOMAIN finished : will_fail[finished[k]]}

FirstFailed == finished[CHOOSE k \in FailedAt : \A m \in FailedAt : k <= m]

\* C3: when a task has failed, what the caller receives is the error of the
\* task that failed first in time, whatever finishes before or after; it
\* has received it once the loop has run every callback; and a result list
\* is received only when no task fails.
C3_FailFast ==
    /\ (FailedAt # {} /\ outcome # <<"pending">>)
          => outcome = <<"raised", ExcOf(FirstFailed)>>
    /\ (FailedAt # {} /\ outer # <<"pending">>)
          => outer = <<"raised", ExcOf(FirstFailed)>>
    /\ (FailedAt # {} /\ ready = <<>>) => outcome[1] = "raised"
    /\ outcome[1] = "raised" => FailedAt # {}
    /\ outcome[1] = "returned" => \A i \in Tasks : ~will_fail[i]

C3_Witness ==
    /\ Len(finished) >= 3
    /\ ~will_fail[finished[1]]
    /\ will_fail[finished[2]]
    /\ will_fail[finished[3]]
    /\ finished[2] > finished[3]
    /\ outcome = <<"raised", ExcOf(finished[2])>>

----------------------------------------------------------------------------
(* Properties of as_event_stream *)

\* The positions of the events of one kind emitted for the run of that
\* name ("root", or a sub-run's path).
EventsOf(name, kind) ==
    {i \in DOMAIN events : events[i].name = name /\ events[i].event[2] = kind}

HasRootId == run_log.state # NoneState /\ run_log.state.id # ABSENT

Translated == pc = "done" \/ error # "none"

\* The stream began as a producer begins it: with the root state, id
\* included.
RootGiven == consumed # <<>> /\ consumed[1] = <<OpRoot(TRUE)>>

\* Sub-run p was announced by a patch of its own.
Announced(p) ==
    \E k \in DOMAIN consumed, i \in InputValues : consumed[k] = <<OpEntry(p, i)>>

\* C4 as claimed: whatever non-empty patch stream was translated, exactly
\* one root start event was emitted, before every root stream and end event.
C4_AsClaimed ==
    (consumed # <<>> /\ Translated)
        => /\ Cardinality(EventsOf("root", "start")) = 1
           /\ \A i \in EventsOf("root", "stream") \cup EventsOf("root", "end") :
                 \E j \in EventsOf("root", "start") : j < i

\* C4, amended: the root start event is emitted when a patch first leaves
\* the root with an id and never again: one root start event has been
\* emitted once the root has an id, none while it has none, and it precedes
\* every root stream event and the root end event.  The flag
\* yielded_start_event is set when the generator is resumed after that
\* event.
C4_RootStartOnce ==
    /\ Cardinality(EventsOf("root", "start")) = (IF HasRootId THEN 1 ELSE 0)
    /\ yielded_start_event = (HasRootId /\ pc # "start")
    /\ pc = "start" => (/\ events[Len(events)].name = "root"
                        /\ events[Len(events)].event[2] = "start")
    /\ \A i \in EventsOf("root", "stream") \cup EventsOf("root", "end") :
          \E j \in EventsOf("root", "start") : j < i

C4_Witness ==
    /\ pc = "done"
    /\ Len(consumed) >= 4
    /\ consumed[1] = <<OpRoot(FALSE)>>
    /\ Cardinality(EventsOf("root", "start")) = 1
    /\ EventsOf("root", "stream") # {}
    /\ events[1].event = <<"chain", "start">>
    /\ events[1].name = "root"

\* C5 as claimed: when the patch source ends, whatever was read before, the
\* root end event is emitted as the last event, and it is the only one.
C5_AsClaimed ==
    [][(pc = "next" /\ error = "none" /\ consumed' = consumed)
          => /\ error' = "none"
             /\ pc' = "done"
             /\ EventsOf("root", "end") = {}
             /\ Len(events') = Len(events) + 1
             /\ events'[Len(events')].name = "root"
             /\ events'[Len(events')].event[2] = "end"]_vars

\* C5, amended: when the patch source ends after a translation that has not
\* failed and the root state has an id, the root end event is emitted as
\* the last event, with the root's final_output (None if no patch set it)
\* as data.output; without a root id (as for an empty patch stream) the end
\* of the source raises and emits nothing.  A root end event is emitted
\* only then: it is the last event and the only root end event.
C5_RootEndAtSourceEnd ==
    /\ [][(pc = "next" /\ error = "none" /\ consumed' = consumed)
            => IF HasRootId
               THEN /\ error' = "none"
                    /\ pc' = "done"
                    /\ Len(events') = Len(events) + 1
                    /\ SubSeq(events', 1, Len(events)) = events
                    /\ events'[Len(events')].name = "root"
                    /\ events'[Len(events')].event[2] = "end"
                    /\ events'[Len(events')].data.output
                          = run_log.state.final_output
               ELSE /\ error' # "none"
                    /\ events' = events]_vars
    /\ [](EventsOf("root", "end") # {}
            => (pc = "done" /\ EventsOf("root", "end") = {Len(events)}))

C5_Witness ==
    /\ pc = "done"
    /\ Len(consumed) >= 2
    /\ run_log.state.final_output = NULL
    /\ events[Len(events)].name = "root"
    /\ events[Len(events)].event = <<"chain", "end">>
    /\ events[Len(events)].data.output = NULL

\* C6 as claimed: after a translation that saw one sub-run start (announced
\* by a patch of its own, after the root state with its id) and end,
\* exactly one start event and one end event were emitted for it, with the
\* same run_id.
C6_AsClaimed ==
    \A p \in SubPaths :
        (/\ pc = "done"
         /\ RootGiven
         /\ Announced(p)
         /\ DOMAIN run_log.state.logs = {p}
         /\ run_log.state.logs[p].end_time # NULL)
            => /\ Cardinality(EventsOf(p, "start")) = 1
               /\ Cardinality(EventsOf(p, "end")) = 1
               /\ \A i \in EventsOf(p, "start"), j \in EventsOf(p, "end") :
                     events[i].run_id = events[j].run_id

\* C7 as claimed: after the end event of a sub-run, no later event of that
\* sub-run carries a chunk or an output, and the translation does not fail
\* on the final_output or inputs the end event deleted.
C7_AsClaimed ==
    \A p \in SubPaths :
        (RootGiven /\ EventsOf(p, "end") # {})
            => /\ \A i \in EventsOf(p, "end"), j \in DOMAIN events :
                     (j > i /\ events[j].name = p)
                        => /\ events[j].data.chunk = ABSENT
                           /\ events[j].data.output = ABSENT
               /\ ~(/\ error = "KeyError"
                     /\ pc = "paths"
                     /\ p \in paths
                     /\ \/ run_log.state.logs[p].final_output = ABSENT
                        \/ run_log.state.logs[p].inputs = ABSENT)

\* C8 as claimed: no patch is translated without an error while two chunks
\* sit in the streamed_output of the root or of a sub-run.
C8_AsClaimed ==
    (pc \in {"next", "done"} /\ error = "none" /\ RootGiven)
        => /\ Len(run_log.state.streamed_output) < 2
           /\ \A p \in DOMAIN run_log.state.logs :
                 Len(run_log.state.logs[p].streamed_output) < 2

\* The positions of the events that carry chunk number k.
ChunkEvents(k) == {i \in DOMAIN events : events[i].data.chunk = Chunk(k)}

\* C9 as claimed: when the translation completes, every chunk a patch
\* appended has been emitted in exactly one event.
C9_AsClaimed ==
    (pc = "done" /\ RootGiven)
        => \A k \in 1 .. ChunksSent(consumed) : Cardinality(ChunkEvents(k)) = 1

----------------------------------------------------------------------------
(* Properties of add, aadd and AddableDict *)

AddDone == add_pc = 0

\* The values of a sequence that are not None, in order.
RECURSIVE NonNone(_)
NonNone(seq) ==
    IF seq = <<>> THEN <<>>
    ELSE IF Head(seq) = NULL THEN NonNone(Tail(seq))
    ELSE <<Head(seq)>> \o NonNone(Tail(seq))

IsAddableDict(v) == TypeOfValue(v) = "AddableDict"

\* A key that is missing or None on one side.
EmptyAt(d, k) == k \notin DOMAIN d[2] \/ d[2][k] = NULL

\* C10 as claimed: folding one value X with the empty marker None on either
\* side gives X, and the sum of two AddableDicts takes, at a key missing or
\* None on one side, the value of the other side.
C10_AsClaimed ==
    AddDone
        => /\ Len(NonNone(addables)) = 1
                => (add_error = "none" /\ final = NonNone(addables)[1])
           /\ (/\ Len(addables) = 2
               /\ IsAddableDict(addables[1])
               /\ IsAddableDict(addables[2]))
                => /\ add_error = "none"
                   /\ \A k \in DictKeys :
                         /\ (EmptyAt(addables[1], k) /\ k \in DOMAIN addables[2][2])
                               => final[2][k] = addables[2][2][k]
                         /\ (EmptyAt(addables[2], k) /\ k \in DOMAIN addables[1][2])
                               => final[2][k] = addables[1][2][k]

\* Whether Python's a + b fails: it raises, of whatever exception type.
Mismatch(a, b) == PyAdd(a, b).err # "none"

\* C11 as claimed: whenever the natural combine of two values that are not
\* None fails, the result is the right operand and no error is surfaced,
\* for two values folded by add and for the values under a shared key of
\* two AddableDicts.
C11_AsClaimed ==
    (AddDone /\ Len(addables) = 2 /\ addables[1] # NULL /\ addables[2] # NULL)
        => /\ Mismatch(addables[1], addables[2])
                => (add_error = "none" /\ final = addables[2])
           /\ (IsAddableDict(addables[1]) /\ IsAddableDict(addables[2]))
                => \A k \in DOMAIN addables[1][2] \cap DOMAIN addables[2][2] :
                      (/\ addables[1][2][k] # NULL
                       /\ addables[2][2][k] # NULL
                       /\ Mismatch(addables[1][2][k], addables[2][2][k]))
                          => (add_error = "none"
                              /\ final[2][k] = addables[2][2][k])

\* The combine rule as the claim has it: a None side takes the other side,
\* values that add give their sum, values that do not give the right one.
KeyCombine(a, b) ==
    IF a = NULL THEN b
    ELSE IF b = NULL THEN a
    ELSE IF PyAdd(a, b).err = "none" THEN PyAdd(a, b).val
    ELSE b

\* C12 as claimed: the sum of any two AddableDicts A and B is an
\* AddableDict with the union of their keys; a key of only one side keeps
\* that side's value; a shared key holds the combination of its two values
\* by the same rule, so that two AddableDicts under a shared key are merged
\* key-wise, not replaced.
C12_AsClaimed ==
    (/\ AddDone
     /\ Len(addables) = 2
     /\ IsAddableDict(addables[1])
     /\ IsAddableDict(addables[2]))
        => LET A == addables[1]
               B == addables[2]
           IN /\ add_error = "none"
              /\ IsAddableDict(final)
              /\ DOMAIN final[2] = DOMAIN A[2] \cup DOMAIN B[2]
              /\ \A k \in DOMAIN A[2] \ DOMAIN B[2] : final[2][k] = A[2][k]
              /\ \A k \in DOMAIN B[2] \ DOMAIN A[2] : final[2][k] = B[2][k]
              /\ \A k \in DOMAIN A[2] \cap DOMAIN B[2] :
                    /\ final[2][k] = KeyCombine(A[2][k], B[2][k])
                    /\ (IsAddableDict(A[2][k]) /\ IsAddableDict(B[2][k]))
                          => /\ IsAddableDict(final[2][k])
                             /\ DOMAIN final[2][k][2]
                                   = DOMAIN A[2][k][2] \cup DOMAIN B[2][k][2]
                             /\ \A j \in DOMAIN A[2][k][2] \cap DOMAIN B[2][k][2] :
                                   final[2][k][2][j]
                                      = KeyCombine(A[2][k][2][j], B[2][k][2][j])

\* Whether a + b is computed without the override rule and without an
\* error: the values add, and so do, recursively, the values that are not
\* None under every shared key of two AddableDicts.
RECURSIVE NoOverride(_, _)
NoOverride(a, b) ==
    IF IsAddableDict(a) /\ IsAddableDict(b)
    THEN \A k \in DOMAIN a[2] \cap DOMAIN b[2] :
            (a[2][k] # NULL /\ b[2][k] # NULL) => NoOverride(a[2][k], b[2][k])
    ELSE PyAdd(a, b).err = "none"

\* Three values, none of them None, have been folded.
FoldedThree ==
    /\ AddDone
    /\ Len(addables) = 3
    /\ \A i \in 1 .. 3 : addables[i] # NULL

\* a + (b + c) for the three values folded.
RightGrouping == PyAdd(addables[1], PyAdd(addables[2], addables[3]).val)

\* C13 as claimed: whenever both groupings of three values have a value,
\* the left-to-right fold equals the right grouping.
C13_AsClaimed ==
    (/\ FoldedThree
     /\ add_error = "none"
     /\ PyAdd(addables[2], addables[3]).err = "none"
     /\ RightGrouping.err = "none")
        => final = RightGrouping.val

\* C13, amended: add computes the left grouping (a + b) + c; it equals
\* a + (b + c) whenever none of the four additions involved uses the
\* override-on-mismatch rule or raises.
C13_AssociativeWithoutOverride ==
    FoldedThree
        => /\ add_error = "none"
                => final = PyAdd(PyAdd(addables[1], addables[2]).val,
                                 addables[3]).val
           /\ (/\ NoOverride(addables[1], addables[2])
               /\ NoOverride(addables[2], addables[3])
               /\ NoOverride(PyAdd(addables[1], addables[2]).val, addables[3])
               /\ NoOverride(addables[1], PyAdd(addables[2], addables[3]).val))
                => /\ add_error = "none"
                   /\ RightGrouping.err = "none"
                   /\ final = RightGrouping.val

C13_Witness ==
    /\ FoldedThree
    /\ addables = <<AddableDict([x |-> NULL, y |-> PyStr(<<"a">>)]),
                    AddableDict([x |-> AddableDict([x |-> PyInt(1)])]),
                    AddableDict([x |-> AddableDict([x |-> PyInt(1)]),
                                 y |-> PyStr(<<"a">>)])>>
    /\ final = AddableDict([x |-> AddableDict([x |-> PyInt(2)]),
                            y |-> PyStr(<<"a", "a">>)])
    /\ final = RightGrouping.val

----------------------------------------------------------------------------
(* Further properties of as_event_stream *)

\* C14 as claimed: for every sub-run (announced by a patch of its own, after
\* the root state with its id), no start event follows a stream event of
\* that sub-run, and no start or stream event follows its end event.
C14_AsClaimed ==
    \A p \in SubPaths :
        (RootGiven /\ Announced(p))
            => /\ \A i \in EventsOf(p, "stream"), j \in EventsOf(p, "start") :
                     j < i
               /\ \A i \in EventsOf(p, "end"),
                     j \in EventsOf(p, "start") \cup EventsOf(p, "stream") :
                     j < i

\* The event the translation has just yielded.
LastEvent == events[Len(events)]

\* C15: the kind of the event emitted for a touched sub-run is determined
\* by the sub-run's merged state when it is inspected: end whenever
\* end_time is set, whatever streamed_output holds; otherwise stream if
\* streamed_output is not empty and start if it is.
C15_KindFromMergedState ==
    [][(pc = "paths" /\ events' # events)
          => /\ Len(events') = Len(events) + 1
             /\ LastEvent'.name \in paths
             /\ LastEvent'.event[2] =
                   (LET log == run_log.state.logs[LastEvent'.name]
                    IN IF log.end_time # NULL THEN "end"
                       ELSE IF log.streamed_output # <<>> THEN "stream"
                       ELSE "start")]_vars

C15_Witness ==
    /\ pc = "root"
    /\ events # <<>>
    /\ LastEvent.name = "b"
    /\ LastEvent.event = <<"llm", "end">>
    /\ Len(run_log.state.logs["b"].streamed_output) = 1
    /\ EventsOf("a", "stream") # {}
    /\ EventsOf("a", "start") # {}

\* C16: events are only appended, one at a time.  Reading a patch yields
\* at most the root start event, and only when that patch first gives the
\* root an id; then come the events of the sub-runs that patch touched,
\* at most one each; then at most one root stream event, after which the
\* next patch is read.
C16_EventOrder ==
    [][/\ Len(events') \in {Len(events), Len(events) + 1}
       /\ SubSeq(events', 1, Len(events)) = events
       /\ (pc = "next" /\ consumed' # consumed)
             => /\ pc' \in {"start", "paths", "root"}
                /\ events' # events
                      => /\ LastEvent'.name = "root"
                         /\ LastEvent'.event[2] = "start"
                         /\ ~HasRootId
                         /\ HasRootId'
                         /\ pc' = "start"
       /\ pc = "start"
             => /\ pc' \in {"paths", "root"}
                /\ consumed' = consumed
                /\ events' = events
       /\ pc = "paths"
             => /\ pc' \in {"paths", "root"}
                /\ consumed' = consumed
                /\ events' # events
                      => /\ LastEvent'.name \in TouchedPaths(consumed[Len(consumed)])
                         /\ LastEvent'.name \in paths
                         /\ LastEvent'.name \notin paths'
       /\ pc = "root"
             => /\ pc' \in {"root", "next"}
                /\ consumed' = consumed
                /\ events' # events
                      => /\ LastEvent'.name = "root"
                         /\ LastEvent'.event[2] = "stream"
                         /\ pc' = "next"]_vars

C16_Witness ==
    /\ pc = "next"
    /\ Len(consumed) = 2
    /\ consumed[2] = <<OpRootId, OpEntry("a", Dict1("input", "i")), OpRootChunk(1)>>
    /\ Len(events) = 3
    /\ events[1].name = "root" /\ events[1].event[2] = "start"
    /\ events[2].name = "a" /\ events[2].event[2] = "start"
    /\ events[3].name = "root" /\ events[3].event[2] = "stream"

\* C17: the step on which the translation fails emits nothing, nothing
\* happens after it, and no root end event is ever emitted by a translation
\* that failed.
C17_FailureEndsStream ==
    /\ [][/\ (error = "none" /\ error' # "none")
                => (events' = events /\ consumed' = consumed /\ pc' = pc)
          /\ error # "none"
                => (events' = events /\ consumed' = consumed /\ pc' = pc
                    /\ error' = error)]_vars
    /\ [](error # "none" => (pc # "done" /\ EventsOf("root", "end") = {}))

C17_Witness ==
    /\ error = "AssertionError"
    /\ pc = "paths"
    /\ Len(consumed) = 3
    /\ Len(events) = 3
    /\ Len(run_log.state.logs["a"].streamed_output) = 2

\* C18: the root end event carries the root's final_output as data.output
\* and empty tags and metadata, whatever tags and metadata the root state
\* holds, and emitting it leaves the run state as it was.
C18_RootEndData ==
    /\ [](pc = "done"
            => /\ LastEvent.name = "root"
               /\ LastEvent.event[2] = "end"
               /\ LastEvent.data.output = run_log.state.final_output
               /\ LastEvent.tags = EmptyList
               /\ LastEvent.metadata = EmptyDict)
    /\ [][(pc # "done" /\ pc' = "done") => run_log' = run_log]_vars

C18_Witness ==
    /\ pc = "done"
    /\ run_log.state.tags = <<"list", "t">>
    /\ run_log.state.metadata = Dict1("k", "v")
    /\ run_log.state.final_output = Dict1("output", "done")
    /\ LastEvent.data.output = Dict1("output", "done")
    /\ LastEvent.tags = EmptyList

----------------------------------------------------------------------------
(* Further properties of gather_with_concurrency *)

AllFinished == \A i \in Tasks : status[i] \in {"done", "failed"}

\* C19: after the caller has received the first failure, no sibling is
\* cancelled: a task changes status only by being queued, by entering its
\* body or by ending as its coroutine ends, every task still reaches its
\* end (with no limit or a limit of at least 1), and the ceiling n keeps
\* holding.
C19_SiblingsNotCancelled ==
    /\ (outcome[1] = "raised" /\ (~gated \/ n >= 1)) ~> AllFinished
    /\ [](outcome[1] = "raised" => (gated => Cardinality(Admitted) <= n))
    /\ [][outcome[1] = "raised"
            => \A i \in Tasks :
                  status'[i] # status[i]
                     => /\ <<status[i], status'[i]>> \in
                              {<<"pending", "running">>, <<"pending", "waiting">>,
                               <<"waiting", "running">>, <<"running", "done">>,
                               <<"running", "failed">>, <<"pending", "done">>,
                               <<"pending", "failed">>, <<"waiting", "done">>,
                               <<"waiting", "failed">>}
                        /\ status'[i] = "failed" => will_fail[i]
                        /\ status'[i] = "done" => ~will_fail[i]]_vars

C19_Witness ==
    /\ gated
    /\ n = 1
    /\ outcome[1] = "raised"
    /\ AllFinished
    /\ will_fail[finished[1]]
    /\ status[finished[2]] = "done"
    /\ status[finished[3]] = "done"
    /\ \A i \in Tasks : suspends[i]

\* C20: with a limit of at least 1 and a fair event loop every task is
\* eventually admitted and the caller eventually receives a result list or
\* an error; with a limit of 0 no task is ever admitted and the caller
\* never receives anything.
C20_EveryTaskAdmitted ==
    /\ \A i \in Tasks :
          (gated /\ n >= 1) ~> (status[i] \in {"running", "done", "failed"})
    /\ (gated /\ n >= 1) ~> (outcome # <<"pending">>)
    /\ []((gated /\ n = 0)
            => /\ \A i \in Tasks : status[i] \in {"pending", "waiting"}
               /\ woken = {}
               /\ outcome = <<"pending">>)

C20_Witness ==
    /\ gated
    /\ n = 1
    /\ AllFinished
    /\ outcome[1] = "returned"
    /\ \A i \in Tasks : suspends[i]
    /\ ready = <<>>

\* The permits that no task body holds: the free ones and those handed to
\* a waiter that has not resumed yet.
Unheld == sem_value + Cardinality(woken)

\* C21: with a limit n, in every reachable state the free permits plus the
\* tasks admitted and unfinished number n and the free count is not
\* negative; a task whose body was suspended gives back exactly one permit
\* when it finishes, by returning or by raising, and permits come back in
\* no other way.
C21_PermitsConserved ==
    /\ [](gated => (sem_value >= 0 /\ sem_value + Cardinality(Admitted) = n))
    /\ [][gated
            => /\ \A i \in Tasks :
                     (status[i] = "running" /\ status'[i] \in {"done", "failed"})
                        => Unheld' = Unheld + 1
               /\ Unheld' > Unheld
                     => \E i \in Tasks :
                           /\ status[i] = "running"
                           /\ status'[i] \in {"done", "failed"}]_vars

C21_Witness ==
    /\ gated
    /\ n = 2
    /\ sem_value = 1
    /\ Cardinality(Admitted) = 1
    /\ \E i \in Tasks : status[i] = "failed"
    /\ \E i \in Tasks : status[i] = "waiting"

====
